---- MODULE Spec2Model ----
(***************************************************************************)
(* State-machine model of nemo_chem/data/augment.py, class                 *)
(* MoleculeEnumeration: the batch preparation of MegaMolBART               *)
(* (_smiles_augmeter_func, _check_seq_len, _prepare_tokens, _pad_seqs,     *)
(* collate_fn) and the legacy tokenizer path (tokenize, detokenize,        *)
(* mask_tokens, _mask_span).                                               *)
(*                                                                         *)
(* Python lists are sequences, list-of-lists are sequences of sequences,   *)
(* tokens are strings, token ids are integers.  A SMILES string is the     *)
(* sequence of its characters.  Every method call is one run from "call"   *)
(* to "returned" or "raised"; `error` records the exception and the source *)
(* line that raised it.  Random draws (atom shuffles, Bernoulli flags,     *)
(* Poisson span lengths) are inputs chosen with \E.                        *)
(***************************************************************************)
EXTENDS Integers, Sequences, FiniteSets, TLC

VARIABLES
    pc,                        \* position of the running call
    error,                     \* [kind, line] of the exception raised, kind "none" if none
    log,                       \* records emitted through nemo.utils.logging / warnings
    filters,                   \* the process-wide warnings filter list, newest first
    names_bound,               \* whether the names the file uses but never binds resolve
    \* fields set by __init__
    seq_length, encoder_augment, encoder_mask, decoder_augment, decoder_mask,
    canonicalize_input, pad_size_divisible_by_8,
    \* _pad_seqs
    seqs, pad_token, padded, masks,
    \* detokenize
    tokens_list, strs,
    \* _mask_span
    ts, sampled_mask, curr_token, masked, token_mask,
    \* tokenize
    sents1, sents2, mask, pad, tokens, m_tokens, token_masks, output,
    \* _prepare_tokens
    batch, mask_data, token_output,
    \* collate_fn
    label_pad, encoder_smiles, canon_targets, encoder_tokens, enc_token_ids, enc_mask,
    decoder_smiles, decoder_tokens, label_ids, dec_token_ids, collate_output

sharedVars == <<pc, error, log, filters, names_bound>>
fieldVars == <<seq_length, encoder_augment, encoder_mask, decoder_augment, decoder_mask,
               canonicalize_input, pad_size_divisible_by_8>>
padVars == <<seqs, pad_token, padded, masks>>
detokVars == <<tokens_list, strs>>
spanVars == <<ts, sampled_mask, curr_token, masked, token_mask>>
tokVars == <<sents1, sents2, mask, pad, tokens, m_tokens, token_masks, output>>
prepVars == <<batch, mask_data, token_output>>
collateVars == <<label_pad, encoder_smiles, canon_targets, encoder_tokens, enc_token_ids,
                 enc_mask, decoder_smiles, decoder_tokens, label_ids, dec_token_ids,
                 collate_output>>
vars == <<sharedVars, fieldVars, padVars, detokVars, spanVars, tokVars, prepVars, collateVars>>

-----------------------------------------------------------------------------
(* Bounds of the model *)

\* longest sequence enumerated over all values in the _pad_seqs runs
MaxShortLen == 2
\* longest (uniformly filled) sequence in the _pad_seqs runs; passes 8, 9, 16, 17
MaxLongLen == 17
\* most sequences handed to one _pad_seqs call
MaxPadBatch == 2
\* longest token sequence enumerated for detokenize, and most sequences in one call
MaxDetokLen == 3
MaxDetokBatch == 2
\* longest token sequence handed to _mask_span, largest Poisson draw, and the cap on
\* the entries _mask_span may emit (a draw of 0 lets the scan emit without end)
MaxSpanTokens == 3
MaxSpanDraw == 2
MaxMasked == 5
\* most strings in one batch handed to tokenize
MaxSents == 2
\* most strings in one batch of _prepare_tokens and collate_fn, and the largest
\* configured seq_length
MaxBatch == 2
MaxSeqLength == 2

-----------------------------------------------------------------------------
(* The tokenizer's special ids and tokens (attributes of self.tokenizer) *)

pad_id == 0
bos_id == 2
eos_id == 3
unk_id == 1
begin_token == "^"
end_token == "&"
pad_tok == "<PAD>"
mask_token == "<MASK>"

-----------------------------------------------------------------------------
(* Generic helpers: Python built-ins used by the code *)

\* value of a local that has not been assigned yet
Unset == <<>>

NoError == [kind |-> "none", line |-> 0]
Raise(kind, line) == [kind |-> kind, line |-> line]

\* all sequences over S of length lo..hi
SeqsOf(S, lo, hi) == UNION {[1..n -> S] : n \in lo..hi}

\* [v] * n
Repeat(v, n) == [i \in 1..n |-> v]

\* max([...]) of a non-empty collection of integers
MaxOf(S) == CHOOSE m \in S : \A x \in S : x <= m

\* max([len(seq) for seq in seqs]), seqs non-empty
MaxLen(ss) == MaxOf({Len(ss[i]) : i \in 1..Len(ss)})

\* math.ceil(n / d) for n >= 0, d > 0
Ceil(n, d) == IF n % d = 0 THEN n \div d ELSE (n \div d) + 1

-----------------------------------------------------------------------------
(* _pad_seqs (lines 127-134) *)

\* a slip: always moving on to the next multiple of 8, also from a multiple of 8
PadLengthNextMultiple(ss, by8) ==
    LET pad_length == MaxLen(ss)
    IN  IF by8 THEN ((pad_length \div 8) + 1) * 8 ELSE pad_length

\* the target length: the longest sequence, rounded up to a multiple of 8 on request
PadLength(ss, by8) ==
    LET pad_length == MaxLen(ss)
    IN  IF by8 THEN Ceil(pad_length, 8) * 8 ELSE pad_length

\* a slip: padding on the left
PadRowLeft(seq, tok, n) == Repeat(tok, n - Len(seq)) \o seq

\* seq + [pad_token] * (pad_length - len(seq))
PadRow(seq, tok, n) == seq \o Repeat(tok, n - Len(seq))

\* [1] * len(seq) + [0] * (pad_length - len(seq))
MaskRow(seq, n) == Repeat(1, Len(seq)) \o Repeat(0, n - Len(seq))

\* the pair (padded, masks) that _pad_seqs returns for a non-empty list
PadSeqs(ss, tok, by8) ==
    LET pad_length == PadLength(ss, by8)
    IN  [padded |-> [i \in 1..Len(ss) |-> PadRow(ss[i], tok, pad_length)],
         masks  |-> [i \in 1..Len(ss) |-> MaskRow(ss[i], pad_length)]]

-----------------------------------------------------------------------------
(* The state outside a running call: locals unassigned, nothing raised *)

SharedInit ==
    /\ pc = "call"
    /\ error = NoError
    /\ log = <<>>
    /\ filters = <<>>

\* the file never imports warnings, random or re and __init__ never sets mask_prob,
\* span_lambda or mask_token: they resolve only where the deployment binds them
NamesUnused == names_bound = FALSE

FieldsUnused ==
    /\ seq_length = 0
    /\ encoder_augment = FALSE /\ encoder_mask = FALSE
    /\ decoder_augment = FALSE /\ decoder_mask = FALSE
    /\ canonicalize_input = FALSE

PadUnused == seqs = Unset /\ pad_token = Unset /\ padded = Unset /\ masks = Unset
DetokUnused == tokens_list = Unset /\ strs = Unset
SpanUnused ==
    /\ ts = Unset /\ sampled_mask = Unset /\ curr_token = 0
    /\ masked = Unset /\ token_mask = Unset
TokUnused ==
    /\ sents1 = Unset /\ sents2 = Unset /\ mask = FALSE /\ pad = FALSE
    /\ tokens = Unset /\ m_tokens = Unset /\ token_masks = Unset /\ output = Unset
PrepUnused == batch = Unset /\ mask_data = FALSE /\ token_output = Unset
CollateUnused ==
    /\ label_pad = 0 /\ encoder_smiles = Unset /\ canon_targets = Unset
    /\ encoder_tokens = Unset /\ enc_token_ids = Unset /\ enc_mask = Unset
    /\ decoder_smiles = Unset /\ decoder_tokens = Unset
    /\ label_ids = Unset /\ dec_token_ids = Unset /\ collate_output = Unset

-----------------------------------------------------------------------------
(* Specification SpecPad: one call of _pad_seqs on every input of the bounds *)

\* values a padded sequence holds; pad_id is among them
PadVals == {pad_id, 5}

\* the sequences handed to _pad_seqs: every short one, and one of each longer length
PadSeqPool ==
    SeqsOf(PadVals, 0, MaxShortLen) \cup {Repeat(5, n) : n \in (MaxShortLen + 1)..MaxLongLen}

InitPad ==
    /\ SharedInit /\ NamesUnused
    /\ FieldsUnused /\ pad_size_divisible_by_8 \in BOOLEAN
    /\ seqs \in SeqsOf(PadSeqPool, 0, MaxPadBatch)
    /\ pad_token \in PadVals
    /\ padded = Unset /\ masks = Unset
    /\ DetokUnused /\ SpanUnused /\ TokUnused /\ PrepUnused /\ CollateUnused

\* line 128: max() of an empty list raises ValueError
PadSeqsRaise ==
    /\ pc = "call"
    /\ seqs = <<>>
    /\ pc' = "raised"
    /\ error' = Raise("ValueError", 128)
    /\ UNCHANGED <<log, filters, names_bound, fieldVars, padVars, detokVars, spanVars,
                   tokVars, prepVars, collateVars>>

\* lines 128-134
PadSeqsReturn ==
    /\ pc = "call"
    /\ seqs # <<>>
    /\ LET r == PadSeqs(seqs, pad_token, pad_size_divisible_by_8)
       IN  padded' = r.padded /\ masks' = r.masks
    /\ pc' = "returned"
    /\ UNCHANGED <<error, log, filters, names_bound, fieldVars, seqs, pad_token, detokVars,
                   spanVars, tokVars, prepVars, collateVars>>

NextPad == PadSeqsRaise \/ PadSeqsReturn

SpecPad == InitPad /\ [][NextPad]_vars

(* Claims about _pad_seqs *)

\* the entries of row at the positions where the validity mask m is not 0
RECURSIVE Strip(_, _)
Strip(row, m) ==
    IF row = <<>> \/ m = <<>> THEN <<>>
    ELSE (IF Head(m) = 0 THEN <<>> ELSE <<Head(row)>>) \o Strip(Tail(row), Tail(m))

\* C2: for a non-empty list of sequences _pad_seqs returns rows of one common length
\* and a mask of the same shape that is 1 on exactly the first len(seq) positions of
\* each row and 0 elsewhere; dropping the positions whose mask is 0 gives the original
\* sequence back, also when it holds the pad value itself.
C2_PadRoundTrip ==
    (pc = "returned" /\ seqs # <<>>) =>
        /\ Len(padded) = Len(seqs) /\ Len(masks) = Len(seqs)
        /\ \A i, j \in 1..Len(seqs) : Len(padded[i]) = Len(padded[j])
        /\ \A i \in 1..Len(seqs) :
            /\ Len(masks[i]) = Len(padded[i])
            /\ \A k \in 1..Len(masks[i]) :
                masks[i][k] = (IF k <= Len(seqs[i]) THEN 1 ELSE 0)
            /\ Strip(padded[i], masks[i]) = seqs[i]

\* a returned call in which a sequence that holds the pad value was padded
C2_Witness ==
    /\ pc = "returned"
    /\ \E i \in 1..Len(seqs) :
        /\ Len(seqs[i]) < Len(padded[i])
        /\ \E k \in 1..Len(seqs[i]) : seqs[i][k] = pad_token

\* C5: with pad_size_divisible_by_8 set the padded length is the smallest multiple of 8
\* that is >= the longest input length (a longest length that is a multiple of 8 is
\* kept); without the flag it is the longest input length.
C5_AlignedLength ==
    (pc = "returned" /\ seqs # <<>>) =>
        \A i \in 1..Len(seqs) :
            LET n == Len(padded[i])
                longest == MaxLen(seqs)
            IN  IF pad_size_divisible_by_8
                THEN /\ n % 8 = 0
                     /\ n >= longest
                     /\ \A m \in 0..n : (m % 8 = 0 /\ m >= longest) => m >= n
                ELSE n = longest

\* a returned call with the flag set whose longest sequence has 9 entries, padded to 16
C5_Witness ==
    /\ pc = "returned"
    /\ pad_size_divisible_by_8
    /\ seqs # <<>>
    /\ MaxLen(seqs) = 9
    /\ Len(padded[1]) = 16

-----------------------------------------------------------------------------
(* detokenize (lines 272-286) *)

\* tokens.index(tok): the first position holding tok (1-based), tok in tokens
IndexOf(tokens_, tok) == CHOOSE k \in 1..Len(tokens_) :
    tokens_[k] = tok /\ \A j \in 1..(k - 1) : tokens_[j] # tok

\* tok in tokens
Contains(tokens_, tok) == \E k \in 1..Len(tokens_) : tokens_[k] = tok

\* "".join(tokens)
RECURSIVE Join(_)
Join(tokens_) == IF tokens_ = <<>> THEN "" ELSE Head(tokens_) \o Join(Tail(tokens_))

\* lines 275-276, for a sequence on which tokens[0] exists
DropBegin(tokens_) == IF tokens_[1] = begin_token THEN Tail(tokens_) ELSE tokens_

\* lines 279-281
CutAtEnd(tokens_) ==
    IF Contains(tokens_, end_token)
    THEN SubSeq(tokens_, 1, IndexOf(tokens_, end_token) - 1)
    ELSE tokens_

\* Specification SpecDetok: one call of detokenize on every input of the bounds

DetokTokens == {begin_token, "C", "O", end_token, pad_tok}

\* every short token sequence, and the documented example
DetokSeqPool ==
    SeqsOf(DetokTokens, 0, MaxDetokLen)
        \cup {<<begin_token, "C", "C", "O", end_token, pad_tok>>}

InitDetok ==
    /\ SharedInit /\ NamesUnused
    /\ FieldsUnused /\ pad_size_divisible_by_8 = FALSE
    /\ tokens_list \in SeqsOf(DetokSeqPool, 0, MaxDetokBatch)
    /\ strs = Unset
    /\ PadUnused /\ SpanUnused /\ TokUnused /\ PrepUnused /\ CollateUnused

\* line 275: tokens[0] of an empty sequence raises IndexError
DetokenizeRaise ==
    /\ pc = "call"
    /\ \E i \in 1..Len(tokens_list) : tokens_list[i] = <<>>
    /\ pc' = "raised"
    /\ error' = Raise("IndexError", 275)
    /\ UNCHANGED <<log, filters, names_bound, fieldVars, padVars, detokVars, spanVars,
                   tokVars, prepVars, collateVars>>

\* lines 273-286
DetokenizeReturn ==
    /\ pc = "call"
    /\ \A i \in 1..Len(tokens_list) : tokens_list[i] # <<>>
    /\ strs' = [i \in 1..Len(tokens_list) |-> Join(CutAtEnd(DropBegin(tokens_list[i])))]
    /\ pc' = "returned"
    /\ UNCHANGED <<error, log, filters, names_bound, fieldVars, padVars, tokens_list,
                   spanVars, tokVars, prepVars, collateVars>>

NextDetok == DetokenizeRaise \/ DetokenizeReturn

SpecDetok == InitDetok /\ [][NextDetok]_vars

(* Claims about detokenize *)

\* the string the documentation describes for one token sequence, empty or not
DescribedString(tokens_) ==
    LET rest == IF tokens_ # <<>> /\ Head(tokens_) = begin_token THEN Tail(tokens_)
                ELSE tokens_
        kept == IF \E k \in 1..Len(rest) : rest[k] = end_token
                THEN SubSeq(rest, 1, (CHOOSE k \in 1..Len(rest) :
                        rest[k] = end_token /\ \A j \in 1..(k - 1) : rest[j] # end_token) - 1)
                ELSE rest
    IN  Join(kept)

\* C6: for every list of token sequences, each possibly empty, detokenize returns one
\* string per sequence in order (leading begin token dropped, cut at the first end
\* token, the rest concatenated), and no input makes it fail.
C6_DetokenizeTotal ==
    (pc # "call") =>
        /\ pc = "returned"
        /\ Len(strs) = Len(tokens_list)
        /\ \A i \in 1..Len(tokens_list) : strs[i] = DescribedString(tokens_list[i])

\* on the calls that return, detokenize gives the described strings; the documented
\* example gives "CCO"
DetokenizeReturned ==
    (pc = "returned") =>
        /\ Len(strs) = Len(tokens_list)
        /\ \A i \in 1..Len(tokens_list) :
            /\ strs[i] = DescribedString(tokens_list[i])
            /\ tokens_list[i] = <<begin_token, "C", "C", "O", end_token, pad_tok>>
                => strs[i] = "CCO"

-----------------------------------------------------------------------------
(* _mask_span (lines 317-340) *)

\* tokens of a SMILES string as the masker sees them
ChemTokens == {"C", "O"}

\* Specification SpecMask: one call of _mask_span; the Bernoulli flags and every
\* Poisson draw are chosen freely

InitMask ==
    /\ SharedInit
    /\ names_bound \in BOOLEAN
    /\ FieldsUnused /\ pad_size_divisible_by_8 = FALSE
    /\ ts \in SeqsOf(ChemTokens, 0, MaxSpanTokens)
    /\ sampled_mask = Unset /\ curr_token = 0 /\ masked = Unset /\ token_mask = Unset
    /\ PadUnused /\ DetokUnused /\ TokUnused /\ PrepUnused /\ CollateUnused

\* line 323: self.mask_prob was never set (line 324: random was never imported)
MaskSpanUnbound ==
    /\ pc = "call"
    /\ ~names_bound
    /\ pc' = "raised"
    /\ error' = Raise("AttributeError", 323)
    /\ UNCHANGED <<log, filters, names_bound, fieldVars, padVars, detokVars, spanVars,
                   tokVars, prepVars, collateVars>>

\* lines 318-324: one Bernoulli outcome per position
MaskSpanSample ==
    /\ pc = "call"
    /\ names_bound
    /\ curr_token' = 0
    /\ masked' = <<>>
    /\ token_mask' = <<>>
    /\ sampled_mask' \in [1..Len(ts) -> BOOLEAN]
    /\ pc' = "loop"
    /\ UNCHANGED <<error, log, filters, names_bound, fieldVars, padVars, detokVars, ts,
                   tokVars, prepVars, collateVars>>

\* lines 326-332: a flagged position emits one placeholder and skips mask_len positions
MaskSpanMasked ==
    /\ pc = "loop"
    /\ curr_token < Len(ts)
    /\ sampled_mask[curr_token + 1]
    /\ Len(masked) < MaxMasked
    /\ \E mask_len \in 0..MaxSpanDraw :
        curr_token' = curr_token + mask_len
    /\ masked' = Append(masked, mask_token)
    /\ token_mask' = Append(token_mask, TRUE)
    /\ UNCHANGED <<sharedVars, fieldVars, padVars, detokVars, ts, sampled_mask,
                   tokVars, prepVars, collateVars>>

\* lines 326, 335-338: an unflagged position is copied
MaskSpanCopy ==
    /\ pc = "loop"
    /\ curr_token < Len(ts)
    /\ ~sampled_mask[curr_token + 1]
    /\ masked' = Append(masked, ts[curr_token + 1])
    /\ token_mask' = Append(token_mask, FALSE)
    /\ curr_token' = curr_token + 1
    /\ UNCHANGED <<sharedVars, fieldVars, padVars, detokVars, ts, sampled_mask,
                   tokVars, prepVars, collateVars>>

\* lines 326, 340: the cursor passed the end
MaskSpanReturn ==
    /\ pc = "loop"
    /\ curr_token >= Len(ts)
    /\ pc' = "returned"
    /\ UNCHANGED <<error, log, filters, names_bound, fieldVars, padVars, detokVars,
                   spanVars, tokVars, prepVars, collateVars>>

NextMask ==
    MaskSpanUnbound \/ MaskSpanSample \/ MaskSpanMasked \/ MaskSpanCopy \/ MaskSpanReturn

SpecMask == InitMask /\ [][NextMask]_vars

(* Claims about _mask_span *)

\* C9: the scan terminates for every token sequence, flagging and span draws, draws of
\* 0 included: every loop iteration advances the cursor by at least 1, so the output
\* never has more entries than the input, and the masked output and its active mask
\* have the same length.
C9_ScanAdvances ==
    /\ [][(pc = "loop" /\ pc' = "loop") => curr_token' >= curr_token + 1]_vars
    /\ [](pc \in {"loop", "returned"} =>
            /\ Len(masked) <= Len(ts)
            /\ Len(masked) = Len(token_mask))

\* what the scan does keep: the cursor never moves back, the two outputs grow together
\* and a draw of 0 is the only way to stand still
ScanKeeps ==
    /\ [][(pc = "loop" /\ pc' = "loop") => curr_token' >= curr_token]_vars
    /\ [](pc \in {"loop", "returned"} => Len(masked) = Len(token_mask))

-----------------------------------------------------------------------------
(* Matching and masking whole batches (lines 242-261, 288-308) *)

\* prog.findall(smi): the compiled pattern is (extra tokens | regex | .), so a
\* two-letter atom is one token and any other character is a token of its own
RECURSIVE RegexFindall(_)
RegexFindall(smi) ==
    IF smi = <<>> THEN <<>>
    ELSE IF Len(smi) >= 2 /\ smi[1] = "C" /\ smi[2] = "l"
         THEN <<"Cl">> \o RegexFindall(SubSeq(smi, 3, Len(smi)))
         ELSE <<smi[1]>> \o RegexFindall(Tail(smi))

\* _regex_match: one token list per string
RegexMatch(smiles) == [i \in 1..Len(smiles) |-> RegexFindall(smiles[i])]

\* the results <<masked, token_mask>> the scan of _mask_span (lines 326-340) can return
\* from cursor cur under the Bernoulli flags, with Poisson draws in `draws`, emitting at
\* most budget further entries
RECURSIVE SpanRuns(_, _, _, _, _)
SpanRuns(ts_, flags, cur, budget, draws) ==
    IF cur >= Len(ts_) THEN {<<<<>>, <<>>>>}
    ELSE IF budget = 0 THEN {}
    ELSE IF flags[cur + 1]
         THEN UNION {{<<<<mask_token>> \o r[1], <<TRUE>> \o r[2]>> :
                        r \in SpanRuns(ts_, flags, cur + mask_len, budget - 1, draws)} :
                     mask_len \in draws}
         ELSE {<<<<ts_[cur + 1]>> \o r[1], <<FALSE>> \o r[2]>> :
                        r \in SpanRuns(ts_, flags, cur + 1, budget - 1, draws)}

\* every result _mask_span can return for ts
MaskSpanResults(ts_) ==
    UNION {SpanRuns(ts_, flags, 0, MaxMasked, 0..MaxSpanDraw) :
            flags \in [1..Len(ts_) -> BOOLEAN]}

\* the loop of mask_tokens (lines 296-306): every sequence is masked on its own
RECURSIVE MaskEach(_)
MaskEach(tokens_) ==
    IF tokens_ = <<>> THEN {<<<<>>, <<>>>>}
    ELSE {<<<<r[1]>> \o rest[1], <<r[2]>> \o rest[2]>> :
            r \in MaskSpanResults(Head(tokens_)), rest \in MaskEach(Tail(tokens_))}

\* mask_tokens: the pairs <<masked_tokens, token_masks>> it can return for a batch
MaskTokens(tokens_, empty_mask) ==
    IF empty_mask
    THEN {<<tokens_, [i \in 1..Len(tokens_) |-> Repeat(TRUE, Len(tokens_[i]))]>>}
    ELSE MaskEach(tokens_)

-----------------------------------------------------------------------------
(* The warnings machinery used by tokenize and _concat_sentences *)

\* warnings.simplefilter(action, DeprecationWarning): the entry goes to the front of the
\* filter list and an older copy of it is dropped
SimpleFilter(action, fs) == <<action>> \o SelectSeq(fs, LAMBDA a : a # action)

\* warnings.warn(..., category=DeprecationWarning) raises when the first filter says
\* "error"; under "always" the warning is shown and the call goes on
WarnRaises(fs) == fs # <<>> /\ Head(fs) = "error"

-----------------------------------------------------------------------------
(* tokenize (lines 191-240) *)

None == [none |-> TRUE, list |-> <<>>]
Some(list) == [none |-> FALSE, list |-> list]

\* `if sents2:` is true of a list that is not empty
Truthy(opt) == ~opt.none /\ opt.list # <<>>

\* a slip: testing the second batch for truth, as line 193 does
LenMismatchTruthy(s1, s2) == Truthy(s2) /\ Len(s1) # Len(s2.list)

\* line 200: sents2 is not None and len(sents1) != len(sents2)
LenMismatch(s1, s2) == ~s2.none /\ Len(s1) # Len(s2.list)

\* the strings handed to tokenize
SentPool == {<<"C", "l">>, <<"C", "O">>}

InitTok ==
    /\ SharedInit
    /\ names_bound \in BOOLEAN
    /\ FieldsUnused /\ pad_size_divisible_by_8 \in BOOLEAN
    /\ sents1 \in SeqsOf(SentPool, 0, MaxSents)
    /\ sents2 \in {None} \cup {Some(l) : l \in SeqsOf(SentPool, 0, MaxSents)}
    /\ mask \in BOOLEAN
    /\ pad \in BOOLEAN
    /\ tokens = Unset /\ m_tokens = Unset /\ token_masks = Unset /\ output = Unset
    /\ PadUnused /\ DetokUnused /\ SpanUnused /\ PrepUnused /\ CollateUnused

\* lines 193-201: the pairing check, the padding check and the length check.  The
\* module never imports warnings, so its first use raises NameError unless the name
\* was bound from outside.
TokenizeChecks ==
    /\ pc = "call"
    /\ LET pairing == Truthy(sents2)
           f1 == IF pairing THEN SimpleFilter("error", filters) ELSE filters
           f2 == IF pad = TRUE THEN SimpleFilter("always", f1) ELSE f1
       IN  IF pairing /\ ~names_bound
           THEN /\ pc' = "raised" /\ error' = Raise("NameError", 194)
                /\ UNCHANGED <<filters, log>>
           ELSE IF pairing /\ WarnRaises(f1)
           THEN /\ pc' = "raised" /\ error' = Raise("DeprecationWarning", 195)
                /\ filters' = f1 /\ UNCHANGED log
           ELSE IF pad = TRUE /\ ~names_bound
           THEN /\ pc' = "raised" /\ error' = Raise("NameError", 197)
                /\ UNCHANGED <<filters, log>>
           ELSE IF pad = TRUE /\ WarnRaises(f2)
           THEN /\ pc' = "raised" /\ error' = Raise("DeprecationWarning", 198)
                /\ filters' = f2 /\ UNCHANGED log
           ELSE IF LenMismatch(sents1, sents2)
           THEN /\ pc' = "raised" /\ error' = Raise("ValueError", 201)
                /\ filters' = f2
                /\ log' = IF pad = TRUE THEN Append(log, "DeprecationWarning") ELSE log
           ELSE /\ pc' = "match" /\ UNCHANGED error
                /\ filters' = f2
                /\ log' = IF pad = TRUE THEN Append(log, "DeprecationWarning") ELSE log
    /\ UNCHANGED <<names_bound, fieldVars, padVars, detokVars, spanVars, tokVars,
                   prepVars, collateVars>>

\* lines 203-204: match the strings, then mask (or not) every token list; the
\* tokenizer's _regex_match and mask_tokens are taken to be the ones of lines 242-248
\* and 288-308
TokenizeMatch ==
    /\ pc = "match"
    /\ tokens' = RegexMatch(sents1)
    /\ \E r \in MaskTokens(RegexMatch(sents1), ~mask) :
        m_tokens' = r[1] /\ token_masks' = r[2]
    /\ pc' = "pair"
    /\ UNCHANGED <<error, log, filters, names_bound, fieldVars, padVars, detokVars,
                   spanVars, sents1, sents2, mask, pad, output, prepVars, collateVars>>

\* lines 206-212: with a second batch the call reaches _concat_sentences at line 210,
\* which fails on its first two lines (265-266: NameError, or its own warning turned
\* into an error)
TokenizePair ==
    /\ pc = "pair"
    /\ IF sents2.none
       THEN /\ pc' = "build" /\ UNCHANGED <<error, filters>>
       ELSE IF ~names_bound
       THEN /\ pc' = "raised" /\ error' = Raise("NameError", 210) /\ UNCHANGED filters
       ELSE /\ pc' = "raised" /\ error' = Raise("DeprecationWarning", 210)
            /\ filters' = SimpleFilter("error", filters)
    /\ UNCHANGED <<log, names_bound, fieldVars, padVars, detokVars, spanVars, tokVars,
                   prepVars, collateVars>>

\* lines 221-240: pad on request and fill the output dictionary (sent_masks is None);
\* _pad_seqs called at line 224 on an empty batch fails in max() (line 128)
TokenizeBuild ==
    /\ pc = "build"
    /\ IF pad /\ tokens = <<>>
       THEN /\ pc' = "raised" /\ error' = Raise("ValueError", 224)
            /\ UNCHANGED <<tokens, m_tokens, token_masks, output>>
       ELSE LET p1 == PadSeqs(tokens, pad_tok, pad_size_divisible_by_8)
                p2 == PadSeqs(m_tokens, pad_tok, pad_size_divisible_by_8)
                p3 == PadSeqs(token_masks, FALSE, pad_size_divisible_by_8)
                t == IF pad THEN p1.padded ELSE tokens
                m == IF pad THEN p2.padded ELSE m_tokens
                tm == IF pad THEN p3.padded ELSE token_masks
                o1 == [original_tokens |-> t]
                o2 == [original_tokens |-> t, masked_tokens |-> m, token_masks |-> tm]
                o3 == [original_tokens |-> t, original_pad_masks |-> p1.masks,
                       masked_pad_masks |-> p2.masks]
                o4 == [original_tokens |-> t, masked_tokens |-> m, token_masks |-> tm,
                       original_pad_masks |-> p1.masks, masked_pad_masks |-> p2.masks]
            IN  /\ tokens' = t /\ m_tokens' = m /\ token_masks' = tm
                /\ output' = IF pad THEN (IF mask THEN o4 ELSE o3)
                             ELSE (IF mask THEN o2 ELSE o1)
                /\ pc' = "returned" /\ UNCHANGED error
    /\ UNCHANGED <<log, filters, names_bound, fieldVars, padVars, detokVars, spanVars,
                   sents1, sents2, mask, pad, prepVars, collateVars>>

NextTok == TokenizeChecks \/ TokenizeMatch \/ TokenizePair \/ TokenizeBuild

SpecTok == InitTok /\ [][NextTok]_vars

(* Claims about tokenize *)

\* the call ended
TokEnded == pc \in {"returned", "raised"}

\* C7: a call that provides a second batch and a call with pad=True each end in a
\* raised error before any tokens are matched, masked or padded and without an output
\* dictionary; a call with neither returns normally.
C7_DisabledFeaturesRaise ==
    TokEnded =>
        IF ~sents2.none \/ pad = TRUE
        THEN pc = "raised" /\ error.line < 203 /\ output = Unset
        ELSE pc = "returned"

\* C8 as stated: every call whose second batch is provided with another number of
\* elements than the first ends in the value error of line 201, not in an error that
\* the disabled-pairing check raised earlier.
C8_MismatchIsValueError ==
    (TokEnded /\ ~sents2.none /\ Len(sents1) # Len(sents2.list)) =>
        pc = "raised" /\ error.kind = "ValueError" /\ error.line = 201

\* C8 as amended: every call whose second batch is provided with another number of
\* elements than the first ends in a raised error before any tokens are matched; a
\* non-empty second batch ends in the error of the pairing check (lines 193-195), and an
\* empty one ends in the value error of line 201 unless the padding check (lines
\* 196-198, pad=True) raised first.
C8_MismatchRaises ==
    (TokEnded /\ ~sents2.none /\ Len(sents1) # Len(sents2.list)) =>
        /\ pc = "raised"
        /\ error.line < 203
        /\ output = Unset
        /\ IF sents2.list # <<>>
           THEN error.line \in {194, 195}
           ELSE IF error.line \in {197, 198}
                THEN pad = TRUE
                ELSE error.kind = "ValueError" /\ error.line = 201

\* a call with an empty second batch and a non-empty first one that ended in the value
\* error
C8_Witness ==
    /\ pc = "raised"
    /\ ~sents2.none /\ sents2.list = <<>> /\ sents1 # <<>>
    /\ error = Raise("ValueError", 201)

-----------------------------------------------------------------------------
(* _check_seq_len and _prepare_tokens (lines 77-125) *)

\* seq[:n] for n >= 0
Take(seq, n) == SubSeq(seq, 1, IF n < Len(seq) THEN n ELSE Len(seq))

\* _check_seq_len on a non-empty batch (lines 89-94); nothing is logged on either path
CheckSeqLen(tokens_, mask_, limit) ==
    IF MaxLen(tokens_) > limit
    THEN <<[i \in 1..Len(tokens_) |-> Take(tokens_[i], limit)],
           [i \in 1..Len(mask_) |-> Take(mask_[i], limit)]>>
    ELSE <<tokens_, mask_>>

\* self.tokenizer.tokenize(batch, pad=False, mask=mask_data): the outputs the tokenizer
\* can return when it masks each row with flags and draws from the given sets
TokenizerTokenize(batch_, mask_data_, maskings) ==
    LET original == RegexMatch(batch_)
    IN  IF mask_data_
        THEN {[original_tokens |-> original, masked_tokens |-> r[1], token_masks |-> r[2]] :
                r \in maskings}
        ELSE {[original_tokens |-> original]}

\* lines 110-115: the tokens and the mask that _prepare_tokens goes on with
ChosenTokens(out, mask_data_) ==
    IF mask_data_ THEN out.masked_tokens ELSE out.original_tokens
ChosenMask(out, mask_data_) ==
    IF mask_data_ THEN out.token_masks
    ELSE [i \in 1..Len(out.original_tokens) |-> Repeat(TRUE, Len(out.original_tokens[i]))]

\* lines 110-125 on a non-empty batch: the returned {"tokens", "mask"}
PrepareTokens(out, mask_data_, limit) ==
    LET r == CheckSeqLen(ChosenTokens(out, mask_data_), ChosenMask(out, mask_data_), limit)
    IN  [tokens |-> r[1], mask |-> r[2]]

\* the SMILES strings of the batches: two and three tokens long, all of them valid
\* molecules (an unparseable string is fatal at line 53 and is left to the caller)
SmilesPool == {<<"C", "O">>, <<"C", "C", "O">>}

\* Specification SpecPrep: one call of _prepare_tokens

InitPrep ==
    /\ SharedInit /\ NamesUnused
    /\ seq_length \in 1..MaxSeqLength
    /\ encoder_augment = FALSE /\ encoder_mask = FALSE
    /\ decoder_augment = FALSE /\ decoder_mask = FALSE
    /\ canonicalize_input = FALSE /\ pad_size_divisible_by_8 = FALSE
    /\ batch \in SeqsOf(SmilesPool, 0, MaxBatch)
    /\ mask_data \in BOOLEAN
    /\ token_output = Unset
    /\ TokUnused
    /\ PadUnused /\ DetokUnused /\ SpanUnused /\ CollateUnused

\* line 108
PrepareTokenize ==
    /\ pc = "call"
    /\ token_output' \in
        TokenizerTokenize(batch, mask_data, MaskTokens(RegexMatch(batch), FALSE))
    /\ pc' = "check"
    /\ UNCHANGED <<error, log, filters, names_bound, fieldVars, padVars, detokVars,
                   spanVars, tokVars, batch, mask_data, collateVars>>

\* lines 110-125; on an empty batch max() fails inside _check_seq_len (line 89),
\* called at line 118
PrepareCheck ==
    /\ pc = "check"
    /\ IF batch = <<>>
       THEN /\ pc' = "raised" /\ error' = Raise("ValueError", 118)
            /\ UNCHANGED <<tokens, mask>>
       ELSE /\ tokens' = PrepareTokens(token_output, mask_data, seq_length).tokens
            /\ mask' = PrepareTokens(token_output, mask_data, seq_length).mask
            /\ pc' = "returned" /\ UNCHANGED error
    /\ UNCHANGED <<log, filters, names_bound, fieldVars, padVars, detokVars, spanVars,
                   sents1, sents2, pad, m_tokens, token_masks, output, prepVars,
                   collateVars>>

NextPrep == PrepareTokenize \/ PrepareCheck

SpecPrep == InitPrep /\ [][NextPrep]_vars

(* Claims about _prepare_tokens / _check_seq_len *)

\* the cut itself: tokens and mask are cut in lock-step when the longest row is too
\* long and are left alone otherwise; short rows are never padded
PrepareCuts ==
    (pc = "returned") =>
        LET t0 == ChosenTokens(token_output, mask_data)
            m0 == ChosenMask(token_output, mask_data)
        IN  IF \E i \in 1..Len(t0) : Len(t0[i]) > seq_length
            THEN /\ Len(tokens) = Len(t0) /\ Len(mask) = Len(t0)
                 /\ \A i \in 1..Len(t0) :
                        /\ tokens[i] = Take(t0[i], seq_length)
                        /\ mask[i] = Take(m0[i], seq_length)
                        /\ Len(tokens[i]) = Len(mask[i])
                        /\ Len(tokens[i]) <= Len(t0[i])
            ELSE tokens = t0 /\ mask = m0

\* C4: when the longest token sequence of the batch is longer than seq_length every
\* sequence and its mask are cut to their first seq_length entries and a warning is
\* emitted; otherwise tokens and masks come back unchanged and no warning is emitted.
C4_TruncateAndWarn ==
    (pc = "returned") =>
        /\ PrepareCuts
        /\ IF \E i \in 1..Len(ChosenTokens(token_output, mask_data)) :
                Len(ChosenTokens(token_output, mask_data)[i]) > seq_length
           THEN log # <<>>
           ELSE log = <<>>

-----------------------------------------------------------------------------
(* _smiles_augmeter_func (lines 45-75) over a molecule held as its list of atoms *)

\* the characters an atom is written with
AtomChars(atom) == IF atom = "Cl" THEN <<"C", "l">> ELSE <<atom>>

\* Chem.MolFromSmiles: the atoms in the order the string names them
MolFromSmiles(smiles) == RegexFindall(smiles)

\* Chem.MolToSmiles(mol, canonical=False): the atoms written in the molecule's order
RECURSIVE MolToSmiles(_)
MolToSmiles(mol) ==
    IF mol = <<>> THEN <<>> ELSE AtomChars(Head(mol)) \o MolToSmiles(Tail(mol))

\* Chem.MolToSmiles(mol, canonical=True): one fixed order whatever the numbering
CanonicalSmiles(mol) ==
    LET count(a) == Cardinality({k \in 1..Len(mol) : mol[k] = a})
    IN  MolToSmiles(Repeat("C", count("C")) \o Repeat("Cl", count("Cl"))
                        \o Repeat("O", count("O")))

\* Chem.RenumberAtoms(mol, atom_order) for the shuffled order that moves every atom
\* `shift` places on
RenumberAtoms(mol, shift) ==
    [k \in 1..Len(mol) |-> mol[((k - 1 + shift) % Len(mol)) + 1]]

\* the random outcomes of one round of augmentation: the shuffle, and whether RDKit
\* fails to write the shuffled molecule (RuntimeError, line 67); one draw serves every
\* row of the batch
AugDraws == {[shift |-> 0, fails |-> FALSE], [shift |-> 1, fails |-> FALSE],
             [shift |-> 1, fails |-> TRUE]}

\* lines 53-75: the returned pair and whether the fallback was logged (line 68)
SmilesAugmenterFunc(smiles, augment_data, canonicalize_input_, draw) ==
    LET mol == MolFromSmiles(smiles)
        canon_smiles == IF canonicalize_input_ THEN CanonicalSmiles(mol) ELSE smiles
        failed == augment_data /\ draw.fails
        aug_smiles ==
            IF augment_data
            THEN IF draw.fails
                 THEN (IF canonicalize_input_ THEN canon_smiles ELSE CanonicalSmiles(mol))
                 ELSE MolToSmiles(RenumberAtoms(mol, draw.shift))
            ELSE MolToSmiles(mol)
    IN  [aug |-> aug_smiles, canon |-> canon_smiles, logged |-> failed]

\* the draws that matter to a call with the given augment flag
DrawsFor(augment_data) == IF augment_data THEN AugDraws ELSE {[shift |-> 0, fails |-> FALSE]}

\* the log after one info record for every row whose fallback was taken
LogFallbacks(log_, results) ==
    log_ \o SelectSeq([i \in 1..Len(results) |-> IF results[i].logged THEN "info" ELSE ""],
                      LAMBDA m : m = "info")

-----------------------------------------------------------------------------
(* collate_fn (lines 136-189) *)

\* self.tokenizer.convert_tokens_to_ids: the vocabulary, unknown tokens to unk_id
TokenId(tok) ==
    CASE tok = pad_tok -> pad_id
      [] tok = begin_token -> bos_id
      [] tok = end_token -> eos_id
      [] tok = mask_token -> 4
      [] tok = "C" -> 5
      [] tok = "O" -> 6
      [] tok = "Cl" -> 7
      [] OTHER -> unk_id
ConvertTokensToIds(tokens_) ==
    [i \in 1..Len(tokens_) |-> [k \in 1..Len(tokens_[i]) |-> TokenId(tokens_[i][k])]]

\* the maskings of a batch the tokenizer is taken through in collate_fn: one flagging
\* pattern and one span length per call, the same for every row
FlagsOf(ts_, pattern) == [k \in 1..Len(ts_) |-> pattern = "all" \/ (pattern = "first" /\ k = 1)]
MaskRowWith(ts_, pattern, mask_len) ==
    CHOOSE r \in SpanRuns(ts_, FlagsOf(ts_, pattern), 0, Len(ts_), {mask_len}) : TRUE
CallMaskings(tokens_) ==
    {<<[i \in 1..Len(tokens_) |-> MaskRowWith(tokens_[i], d[1], d[2])[1]],
       [i \in 1..Len(tokens_) |-> MaskRowWith(tokens_[i], d[1], d[2])[2]]>> :
        d \in {"none", "first", "all"} \X (1..MaxSpanDraw)}

\* a slip: taking the labels from the ids that already carry the begin marker
LabelIdsAfterBos(ids) == [i \in 1..Len(ids) |-> <<bos_id>> \o ids[i] \o <<eos_id>>]

\* line 169
LabelIds(ids) == [i \in 1..Len(ids) |-> ids[i] \o <<eos_id>>]

\* a slip: the begin marker left out
WithBosLeftOut(ids) == ids

\* line 170
WithBos(ids) == [i \in 1..Len(ids) |-> <<bos_id>> \o ids[i]]

\* a slip: the padded labels returned as _pad_seqs left them
IgnorePaddingSkipped(label_token_ids, loss_mask, label_pad_) == label_token_ids

\* line 179: label_token_ids[~loss_mask.to(torch.bool)] = label_pad
IgnorePadding(label_token_ids, loss_mask, label_pad_) ==
    [i \in 1..Len(label_token_ids) |->
        [k \in 1..Len(label_token_ids[i]) |->
            IF loss_mask[i][k] = 0 THEN label_pad_ ELSE label_token_ids[i][k]]]

\* the ignore values passed as label_pad: the default and the one of torch's losses
LabelPads == {-1, -100}

InitCollate ==
    /\ SharedInit /\ NamesUnused
    /\ seq_length \in 1..MaxSeqLength
    /\ encoder_augment \in BOOLEAN /\ encoder_mask \in BOOLEAN
    /\ decoder_augment \in BOOLEAN /\ decoder_mask \in BOOLEAN
    /\ canonicalize_input \in BOOLEAN /\ pad_size_divisible_by_8 \in BOOLEAN
    /\ batch \in SeqsOf(SmilesPool, 0, MaxBatch)
    /\ label_pad \in LabelPads
    /\ mask_data = FALSE /\ token_output = Unset
    /\ encoder_smiles = Unset /\ canon_targets = Unset
    /\ encoder_tokens = Unset /\ enc_token_ids = Unset /\ enc_mask = Unset
    /\ decoder_smiles = Unset /\ decoder_tokens = Unset
    /\ label_ids = Unset /\ dec_token_ids = Unset /\ collate_output = Unset
    /\ TokUnused /\ PadUnused /\ DetokUnused /\ SpanUnused

\* lines 142-147 on an empty batch: max() fails inside _check_seq_len (line 89)
CollateEmpty ==
    /\ pc = "call"
    /\ batch = <<>>
    /\ pc' = "raised"
    /\ error' = Raise("ValueError", 147)
    /\ UNCHANGED <<log, filters, names_bound, fieldVars, padVars, detokVars, spanVars,
                   tokVars, prepVars, collateVars>>

\* lines 142-154: augment, prepare, convert and pad the encoder side
CollateEncoder ==
    /\ pc = "call"
    /\ batch # <<>>
    /\ \E draw \in DrawsFor(encoder_augment) :
        LET res == [i \in 1..Len(batch) |->
                        SmilesAugmenterFunc(batch[i], encoder_augment, canonicalize_input, draw)]
            smiles == [i \in 1..Len(batch) |-> res[i].aug]
        IN  /\ encoder_smiles' = smiles
            /\ canon_targets' = [i \in 1..Len(batch) |-> res[i].canon]
            /\ log' = LogFallbacks(log, res)
            /\ \E out \in TokenizerTokenize(smiles, encoder_mask,
                                            CallMaskings(RegexMatch(smiles))) :
                LET toks == PrepareTokens(out, encoder_mask, seq_length).tokens
                    p == PadSeqs(ConvertTokensToIds(toks), pad_id, pad_size_divisible_by_8)
                IN  /\ encoder_tokens' = toks
                    /\ enc_token_ids' = p.padded
                    /\ enc_mask' = p.masks
    /\ pc' = "decoder"
    /\ UNCHANGED <<error, filters, names_bound, fieldVars, padVars, detokVars, spanVars,
                   tokVars, prepVars, label_pad, decoder_smiles, decoder_tokens, label_ids,
                   dec_token_ids, collate_output>>

\* lines 157-170: the decoder strings, their tokens, the labels and the decoder input
CollateDecoder ==
    /\ pc = "decoder"
    /\ \E draw \in DrawsFor(decoder_augment) :
        LET res == [i \in 1..Len(encoder_smiles) |->
                        SmilesAugmenterFunc(encoder_smiles[i], decoder_augment, FALSE, draw)]
            smiles == IF decoder_augment
                      THEN [i \in 1..Len(encoder_smiles) |-> res[i].aug]
                      ELSE encoder_smiles
        IN  /\ decoder_smiles' = smiles
            /\ log' = IF decoder_augment THEN LogFallbacks(log, res) ELSE log
            /\ \E out \in TokenizerTokenize(smiles, decoder_mask,
                                            CallMaskings(RegexMatch(smiles))) :
                LET toks == PrepareTokens(out, decoder_mask, seq_length).tokens
                    ids == ConvertTokensToIds(toks)
                IN  /\ decoder_tokens' = toks
                    /\ label_ids' = LabelIds(ids)
                    /\ dec_token_ids' = WithBos(ids)
    /\ pc' = "pad"
    /\ UNCHANGED <<error, filters, names_bound, fieldVars, padVars, detokVars, spanVars,
                   tokVars, prepVars, label_pad, encoder_smiles, canon_targets,
                   encoder_tokens, enc_token_ids, enc_mask, collate_output>>

\* lines 171-189: pad the decoder input and the labels, blank the padded labels and
\* assemble the batch
CollatePad ==
    /\ pc = "pad"
    /\ LET d == PadSeqs(dec_token_ids, pad_id, pad_size_divisible_by_8)
           l == PadSeqs(label_ids, pad_id, pad_size_divisible_by_8)
       IN  /\ dec_token_ids' = d.padded
           /\ collate_output' =
                [text_enc |-> enc_token_ids,
                 enc_mask |-> enc_mask,
                 text_dec |-> d.padded,
                 dec_mask |-> d.masks,
                 labels |-> IgnorePadding(l.padded, l.masks, label_pad),
                 loss_mask |-> l.masks,
                 target_smiles |-> canon_targets]
    /\ pc' = "returned"
    /\ UNCHANGED <<error, log, filters, names_bound, fieldVars, padVars, detokVars,
                   spanVars, tokVars, prepVars, label_pad, encoder_smiles, canon_targets,
                   encoder_tokens, enc_token_ids, enc_mask, decoder_smiles, decoder_tokens,
                   label_ids>>

NextCollate == CollateEmpty \/ CollateEncoder \/ CollateDecoder \/ CollatePad

SpecCollate == InitCollate /\ [][NextCollate]_vars

(* Claims about collate_fn *)

\* the decoder token ids d_i of every row: convert_tokens_to_ids of what
\* _prepare_tokens returned for the decoder
DecoderIds == ConvertTokensToIds(decoder_tokens)

\* the number of entries of a 0/1 row that are 1
Ones(row) == Cardinality({k \in 1..Len(row) : row[k] = 1})

\* C1: for every row i the unpadded label row is d_i with exactly one eos_id appended
\* and the unpadded decoder input row is exactly one bos_id followed by d_i, so that
\* label[k] = decoder_input[k+1] at every position k of d_i.
C1_LabelShift ==
    (pc = "pad") =>
        /\ Len(label_ids) = Len(batch) /\ Len(dec_token_ids) = Len(batch)
        /\ \A i \in 1..Len(batch) :
            LET d == DecoderIds[i]
            IN  /\ label_ids[i] = d \o <<eos_id>>
                /\ dec_token_ids[i] = <<bos_id>> \o d
                /\ \A k \in 1..Len(d) : label_ids[i][k] = dec_token_ids[i][k + 1]

\* labels and decoder input were built for a row of at least two decoder tokens, one of
\* them a mask placeholder
C1_Witness ==
    /\ pc = "pad"
    /\ \E i \in 1..Len(batch) :
        /\ Len(decoder_tokens[i]) >= 2
        /\ \E k \in 1..Len(decoder_tokens[i]) : decoder_tokens[i][k] = mask_token
        /\ Len(label_ids[i]) = Len(decoder_tokens[i]) + 1

\* C3: in the returned batch every position of 'labels' whose 'loss_mask' is 0 holds
\* label_pad, and every position whose 'loss_mask' is 1 holds the unpadded label id
\* (the decoder ids followed by eos_id); padding leaves no pad_id in 'labels'.
C3_IgnoredLabels ==
    (pc = "returned") =>
        /\ Len(collate_output.labels) = Len(batch)
        /\ Len(collate_output.loss_mask) = Len(batch)
        /\ \A i \in 1..Len(batch) :
            LET unpadded == DecoderIds[i] \o <<eos_id>>
                row == collate_output.labels[i]
                lm == collate_output.loss_mask[i]
            IN  /\ Len(row) = Len(lm)
                /\ Len(row) >= Len(unpadded)
                /\ \A k \in 1..Len(row) :
                    /\ lm[k] \in {0, 1}
                    /\ lm[k] = 0 => row[k] = label_pad
                    /\ lm[k] = 1 => (k <= Len(unpadded) /\ row[k] = unpadded[k])
                    /\ k > Len(unpadded) => (lm[k] = 0 /\ row[k] # pad_id)

\* a returned batch with a padded label position
C3_Witness ==
    /\ pc = "returned"
    /\ \E i \in 1..Len(batch) : \E k \in 1..Len(collate_output.loss_mask[i]) :
        /\ collate_output.loss_mask[i][k] = 0
        /\ collate_output.labels[i][k] = label_pad

\* C10: in every returned batch, whatever the flags, 'text_dec' and 'labels' have the
\* same shape, 'dec_mask' equals 'loss_mask' element for element, and every row of
\* 'dec_mask' has exactly one more 1 than the row has decoder tokens.
C10_DecoderShapes ==
    (pc = "returned") =>
        /\ Len(collate_output.text_dec) = Len(collate_output.labels)
        /\ Len(collate_output.dec_mask) = Len(collate_output.text_dec)
        /\ \A i \in 1..Len(collate_output.text_dec) :
            /\ Len(collate_output.text_dec[i]) = Len(collate_output.labels[i])
            /\ Len(collate_output.dec_mask[i]) = Len(collate_output.text_dec[i])
            /\ Ones(collate_output.dec_mask[i]) = Len(decoder_tokens[i]) + 1
        /\ collate_output.dec_mask = collate_output.loss_mask

\* a returned batch of rows of different decoder lengths, built with decoder masking and
\* the alignment flag on and with the decoder cut to seq_length
C10_Witness ==
    /\ pc = "returned"
    /\ decoder_mask /\ pad_size_divisible_by_8
    /\ \E i, j \in 1..Len(batch) : Len(decoder_tokens[i]) < Len(decoder_tokens[j])
    /\ \E i \in 1..Len(batch) : Len(RegexFindall(decoder_smiles[i])) > seq_length

====
